---- MODULE Spec2Model ----
(***************************************************************************)
(* Model of main.py: the Gradio callbacks signup, login, save_message,     *)
(* load_history, mistral_chat and logout, the per-instance gr.State values *)
(* (session, chat_history), the chatbot display, and the Firestore         *)
(* collections "users" and "chats".  The identity provider, the document   *)
(* store and the completion endpoint are external: every outcome they can  *)
(* give to the code is drawn nondeterministically.                         *)
(***************************************************************************)
EXTENDS Integers, Sequences, FiniteSets, TLC

\* ---------------------------------------------------------------- bounds
MaxHistory == 2
MaxLog == 2
MaxClock == 2

\* The clock counts half seconds, so that a reading can fall inside a second.
TicksPerSecond == 2

Instances == {1, 2}
Uids == {"u1", "u2"}
Emails == {"a@x.com"}
Passwords == {"pw123456"}
Messages == {"Hello"}
Replies == {"Hi there"}

\* Python None, and a key absent from a JSON response / a document absent
\* from a collection.
None == "None"
Missing == "Missing"
NoTime == -1
NoDoc == [exists |-> FALSE, email |-> None, last_login |-> NoTime]

\* ------------------------------------------------------- external outcomes
\* requests.post + raise_for_status + res.json() of the identity provider:
\* ok = FALSE is a transport error or a non-2xx status; with ok = TRUE the
\* body is a JSON object in which either key may be absent.
ProviderFailure == [ok |-> FALSE, localId |-> Missing, email |-> Missing]
ProviderResponses ==
    {ProviderFailure} \cup
    [ok : {TRUE}, localId : Uids \cup {Missing}, email : Emails \cup {Missing}]

\* The completion endpoint: a failure cause, or the reply text of choice 0.
CompletionFailures == {"ConnectionError", "KeyError"}
CompletionOutcomes == CompletionFailures \cup Replies

\* ------------------------------------------------------------ user strings
SIGNUP_OK == "Signup successful! Please login."
SIGNUP_ERR == "Signup Error: Could not create account."
LOGIN_OK == "Login successful!"
LOGIN_ERR == "Invalid email or password."
HISTORY_GATE == "Please login to view history."
CHAT_GATE == "Please login to chat."
LOGOUT_MSG == "Logged out successfully."
HISTORY_HEADER == "### Chat History"

\* ------------------------------------------------------------- state values
DefaultSession == [logged_in |-> FALSE, uid |-> None, email |-> None]

\* A Python value held in chat_history / shown in chatbot: a list of
\* entries, or a str (the "" that logout returns).
ListVal(s) == [isList |-> TRUE, items |-> s]
StrVal == [isList |-> FALSE, items |-> <<>>]

Entry(label, text) == [label |-> label, text |-> text]
YouLabel(message) == "You: " \o message
ChatErrorText(e) == "Chat Error: " \o e
GateEntry == Entry("System", CHAT_GATE)

\* "if not session.get("logged_in")": the gate of the two gated callbacks.
Gated_never(sess) == FALSE

Gated(sess) == ~sess.logged_in

\* session, chat_history: the two gr.State values of each UI instance;
\* chatbot: what the Chatbot component of the instance shows;
\* users, chats: the Firestore collections; clock: the value utcnow() gives;
\* last: a record of the last callback that ran.
VARIABLES session, chat_history, chatbot, users, chats, clock, last

vars == <<session, chat_history, chatbot, users, chats, clock, last>>

\* ------------------------------------------------------------------ signup
\* Returns the message and the users collection after the call; writes is
\* the number of document-store writes that were issued.
\* The document written by signup; created_at is not modelled.
NewUser_stamped(email, now) == [exists |-> TRUE, email |-> email, last_login |-> now]

NewUser(email, now) == [exists |-> TRUE, email |-> email, last_login |-> NoTime]

signup(email, password, resp, setOk, usrs, now) ==
    IF ~resp.ok \/ resp.localId = Missing THEN
        [msg |-> SIGNUP_ERR, users |-> usrs, calls |-> {"identity"}, writes |-> 0]
    ELSE IF ~setOk THEN
        [msg |-> SIGNUP_ERR, users |-> usrs,
         calls |-> {"identity", "store_write"}, writes |-> 1]
    ELSE
        [msg |-> SIGNUP_OK,
         users |-> [usrs EXCEPT ![resp.localId] = NewUser(email, now)],
         calls |-> {"identity", "store_write"}, writes |-> 1]

\* ------------------------------------------------------------------- login
\* The session dict is assigned field by field inside the try block, so an
\* exception leaves the assignments made before it.  update() of a document
\* that does not exist fails.
\* requests.post or raise_for_status raised: nothing was assigned yet.
AuthRejected_reset(sess, usrs) ==
    [msg |-> LOGIN_ERR, session |-> DefaultSession, users |-> usrs,
     calls |-> {"identity"}, writes |-> 0]

AuthRejected(sess, usrs) ==
    [msg |-> LOGIN_ERR, session |-> sess, users |-> usrs,
     calls |-> {"identity"}, writes |-> 0]

\* session["uid"] = user["localId"]
SetUid_skipped(sess, user) == sess

SetUid(sess, user) == [sess EXCEPT !.uid = user.localId]

login(email, password, sess, resp, updateOk, usrs, now) ==
    IF ~resp.ok THEN
        AuthRejected(sess, usrs)
    ELSE IF resp.localId = Missing THEN
        [msg |-> LOGIN_ERR,
         session |-> [sess EXCEPT !.logged_in = TRUE],
         users |-> usrs, calls |-> {"identity"}, writes |-> 0]
    ELSE IF resp.email = Missing THEN
        [msg |-> LOGIN_ERR,
         session |-> SetUid([sess EXCEPT !.logged_in = TRUE], resp),
         users |-> usrs, calls |-> {"identity"}, writes |-> 0]
    ELSE
        LET s3 == [SetUid([sess EXCEPT !.logged_in = TRUE], resp)
                      EXCEPT !.email = resp.email]
        IN  IF ~updateOk \/ ~usrs[resp.localId].exists THEN
                [msg |-> LOGIN_ERR, session |-> s3, users |-> usrs,
                 calls |-> {"identity", "store_write"}, writes |-> 1]
            ELSE
                [msg |-> LOGIN_OK, session |-> s3,
                 users |-> [usrs EXCEPT ![resp.localId].last_login = now],
                 calls |-> {"identity", "store_write"}, writes |-> 1]

\* ------------------------------------------------------------ save_message
\* document(uid) with uid = None makes a document with a generated id, so
\* the record lands outside every user's log.
save_message_firstUser(cs, uid, role, text, now) ==
    IF uid = None THEN cs
    ELSE [cs EXCEPT !["u1"] = Append(@, [role |-> role, text |-> text, time |-> now])]

save_message(cs, uid, role, text, now) ==
    IF uid = None THEN cs
    ELSE [cs EXCEPT ![uid] = Append(@, [role |-> role, text |-> text, time |-> now])]

\* ------------------------------------------------------------ load_history
RECURSIVE InsertByTime(_, _)
InsertByTime(rec, s) ==
    IF s = <<>> THEN <<rec>>
    ELSE IF rec.time < Head(s).time THEN <<rec>> \o s
    ELSE <<Head(s)>> \o InsertByTime(rec, Tail(s))

\* order_by("time"): ascending by the stored time; records with equal times
\* are kept in the order of insertion.
RECURSIVE OrderByTime_descending(_)
OrderByTime_descending(s) ==
    IF s = <<>> THEN <<>>
    ELSE LET rest == OrderByTime_descending(SubSeq(s, 1, Len(s) - 1))
             rec == s[Len(s)]
             k == Cardinality({j \in 1..Len(rest) : rest[j].time >= rec.time})
         IN  SubSeq(rest, 1, k) \o <<rec>> \o SubSeq(rest, k + 1, Len(rest))

RECURSIVE OrderByTime(_)
OrderByTime(s) ==
    IF s = <<>> THEN <<>>
    ELSE InsertByTime(s[Len(s)], OrderByTime(SubSeq(s, 1, Len(s) - 1)))

\* msg["time"].strftime("%Y-%m-%d %H:%M:%S"): the time to whole seconds.
strftime_exact(t) == t

strftime(t) == t \div TicksPerSecond

\* One line of the output: role, formatted time, text.
HistoryLine_noText(msg) ==
    [role |-> msg.role, time |-> strftime(msg.time), text |-> ""]

HistoryLine(msg) ==
    [role |-> msg.role, time |-> strftime(msg.time), text |-> msg.text]

RECURSIVE HistoryLines(_)
HistoryLines(docs) ==
    IF docs = <<>> THEN <<>>
    ELSE <<HistoryLine(Head(docs))>> \o HistoryLines(Tail(docs))

load_history(sess, readOk, cs) ==
    IF Gated(sess) THEN
        [raised |-> FALSE, msg |-> HISTORY_GATE, lines |-> <<>>, calls |-> {},
         writes |-> 0]
    ELSE IF ~readOk THEN
        [raised |-> TRUE, msg |-> None, lines |-> <<>>, calls |-> {"store_read"},
         writes |-> 0]
    ELSE
        LET docs == IF sess.uid = None THEN <<>> ELSE OrderByTime(cs[sess.uid])
        IN  [raised |-> FALSE, msg |-> HISTORY_HEADER,
             lines |-> HistoryLines(docs), calls |-> {"store_read"},
             writes |-> 0]

\* ------------------------------------------------------------ mistral_chat
\* The except handler: history.append(("System", ...)); return history, history.
\* history.append raises again when history is not a list.
ChatExcept(history, e, cs, calls, writes) ==
    IF ~history.isList THEN
        [raised |-> TRUE, chatbot |-> history, chat_history |-> history,
         chats |-> cs, calls |-> calls, writes |-> writes]
    ELSE
        LET h == ListVal(Append(history.items, Entry("System", ChatErrorText(e))))
        IN  [raised |-> FALSE, chatbot |-> h, chat_history |-> h,
             chats |-> cs, calls |-> calls, writes |-> writes]

\* now and now2 are the readings of utcnow() in the two save_message calls.
mistral_chat(message, history, sess, comp, w1, w2, cs, now, now2) ==
    IF Gated(sess) THEN
        [raised |-> FALSE, chatbot |-> history,
         chat_history |-> ListVal(<<GateEntry>>),
         chats |-> cs, calls |-> {}, writes |-> 0]
    ELSE IF comp \in CompletionFailures THEN
        ChatExcept(history, comp, cs, {"completion"}, 0)
    ELSE IF ~history.isList THEN
        ChatExcept(history, "AttributeError", cs, {"completion"}, 0)
    ELSE
        LET h1 == ListVal(Append(history.items, Entry(YouLabel(message), comp)))
            cs1 == save_message(cs, sess.uid, "user", message, now)
            cs2 == save_message(cs1, sess.uid, "bot", comp, now2)
        IN  IF ~w1 THEN
                ChatExcept(h1, "StoreError", cs, {"completion", "store_write"}, 1)
            ELSE IF ~w2 THEN
                ChatExcept(h1, "StoreError", cs1, {"completion", "store_write"}, 2)
            ELSE
                [raised |-> FALSE, chatbot |-> h1, chat_history |-> h1,
                 chats |-> cs2, calls |-> {"completion", "store_write"},
                 writes |-> 2]

\* ------------------------------------------------------------------ logout
\* Returns (message, session, [], ""); the click wiring sends the third
\* value to chatbot and the fourth to chat_history.
logout_keepsEmail(sess) ==
    [msg |-> LOGOUT_MSG,
     session |-> [sess EXCEPT !.logged_in = FALSE, !.uid = None],
     chatbot |-> ListVal(<<>>),
     chat_history |-> StrVal]

logout(sess) ==
    [msg |-> LOGOUT_MSG,
     session |-> [sess EXCEPT !.logged_in = FALSE, !.uid = None, !.email = None],
     chatbot |-> ListVal(<<>>),
     chat_history |-> StrVal]

\* ------------------------------------------------------------------- state
\* What the last callback did: the external calls it made, what each call
\* that was made answered, and what the callback gave back to the UI.  An
\* answer of a call that was not made is None.
NoEnv == [resp |-> None, typed |-> None, comp |-> None, w1 |-> None, w2 |-> None]

Ok(b) == IF b THEN "ok" ELSE "fail"

Last(op, i, env, r, msg, raised) ==
    [op |-> op, inst |-> i, env |-> env, calls |-> r.calls, writes |-> r.writes,
     msg |-> msg, raised |-> raised,
     out |-> IF op = "load_history" THEN r.lines ELSE <<>>]

\* gr.State gives every UI instance its own copy of the initial values.
Init ==
    /\ session = [i \in Instances |-> DefaultSession]
    /\ chat_history = [i \in Instances |-> ListVal(<<>>)]
    /\ chatbot = [i \in Instances |-> ListVal(<<>>)]
    /\ users = [u \in Uids |-> NoDoc]
    /\ chats = [u \in Uids |-> <<>>]
    /\ clock = 0
    /\ last = [op |-> "init", inst |-> 0, env |-> NoEnv, calls |-> {},
               writes |-> 0, msg |-> None, raised |-> FALSE, out |-> <<>>]

\* signup never reads the email of the response, and a write that is not
\* reached has no outcome: those choices are fixed instead of enumerated.
Signup(i) ==
    \E email \in Emails, password \in Passwords,
       resp \in ProviderResponses, setOk \in BOOLEAN :
        LET r == signup(email, password, resp, setOk, users, clock)
        IN  /\ resp.email = Missing
            /\ r.writes = 0 => setOk
            /\ users' = r.users
            /\ last' = Last("signup", i,
                            [NoEnv EXCEPT !.resp = resp, !.typed = email,
                                          !.w1 = IF r.writes > 0 THEN Ok(setOk) ELSE None],
                            r, r.msg, FALSE)
            /\ UNCHANGED <<session, chat_history, chatbot, chats, clock>>

Login(i) ==
    \E email \in Emails, password \in Passwords,
       resp \in ProviderResponses, updateOk \in BOOLEAN :
        LET r == login(email, password, session[i], resp, updateOk, users, clock)
        IN  /\ r.writes = 0 => updateOk
            /\ session' = [session EXCEPT ![i] = r.session]
            /\ users' = r.users
            /\ last' = Last("login", i,
                            [NoEnv EXCEPT !.resp = resp,
                                          !.w1 = IF r.writes > 0 THEN Ok(updateOk) ELSE None],
                            r, r.msg, FALSE)
            /\ UNCHANGED <<chat_history, chatbot, chats, clock>>

\* MaxHistory and MaxLog cap the growth of the transcript and of the log.
\* When the callback raises, Gradio leaves every output as it was.
\* d is the time that passes between the two save_message calls.
SendAt(i, d) ==
    \E message \in Messages, comp \in CompletionOutcomes, w1, w2 \in BOOLEAN :
        LET r == mistral_chat(message, chat_history[i], session[i], comp,
                              w1, w2, chats, clock, clock + d)
            called == "completion" \in r.calls
        IN  /\ clock + d <= MaxClock
            /\ r.writes < 2 => d = 0
            /\ chat_history[i].isList => Len(chat_history[i].items) < MaxHistory
            /\ session[i].uid # None => Len(chats[session[i].uid]) + 2 <= MaxLog
            /\ ~called => comp = CHOOSE c \in CompletionOutcomes : TRUE
            /\ r.writes < 1 => w1
            /\ r.writes < 2 => w2
            /\ IF r.raised
               THEN UNCHANGED <<chat_history, chatbot>>
               ELSE /\ chat_history' = [chat_history EXCEPT ![i] = r.chat_history]
                    /\ chatbot' = [chatbot EXCEPT ![i] = r.chatbot]
            /\ chats' = r.chats
            /\ last' = Last("send", i,
                            [NoEnv EXCEPT !.typed = message,
                                          !.comp = IF called THEN comp ELSE None,
                                          !.w1 = IF r.writes >= 1 THEN Ok(w1) ELSE None,
                                          !.w2 = IF r.writes >= 2 THEN Ok(w2) ELSE None],
                            r, None, r.raised)
            /\ clock' = clock + d
            /\ UNCHANGED <<session, users>>

\* A send that takes no time.
Send(i) == SendAt(i, 0)

\* A send during which the clock may advance.
SendTimed(i) == \E d \in 0..1 : SendAt(i, d)

LoadHistory(i) ==
    \E readOk \in BOOLEAN :
        LET r == load_history(session[i], readOk, chats)
        IN  /\ r.calls = {} => readOk
            /\ last' = Last("load_history", i,
                            [NoEnv EXCEPT !.w1 = IF r.calls # {} THEN Ok(readOk) ELSE None],
                            r, r.msg, r.raised)
            /\ UNCHANGED <<session, chat_history, chatbot, users, chats, clock>>

Logout(i) ==
    LET r == logout(session[i])
    IN  /\ session' = [session EXCEPT ![i] = r.session]
        /\ chatbot' = [chatbot EXCEPT ![i] = r.chatbot]
        /\ chat_history' = [chat_history EXCEPT ![i] = r.chat_history]
        /\ last' = Last("logout", i, NoEnv, [calls |-> {}, writes |-> 0], r.msg, FALSE)
        /\ UNCHANGED <<users, chats, clock>>

\* One UI instance, every outcome of the three external services.
Next ==
    \/ Signup(1)
    \/ Login(1)
    \/ Send(1)
    \/ LoadHistory(1)
    \/ Logout(1)

Spec == Init /\ [][Next]_vars

\* Time passes between callbacks.
Tick ==
    /\ clock < MaxClock
    /\ clock' = clock + 1
    /\ UNCHANGED <<session, chat_history, chatbot, users, chats, last>>

\* Both accounts exist: the state after a successful signup of each user.
InitSignedUp ==
    /\ session = [i \in Instances |-> DefaultSession]
    /\ chat_history = [i \in Instances |-> ListVal(<<>>)]
    /\ chatbot = [i \in Instances |-> ListVal(<<>>)]
    /\ users = [u \in Uids |-> NewUser("a@x.com", 0)]
    /\ chats = [u \in Uids |-> <<>>]
    /\ clock = 0
    /\ last = [op |-> "signup", inst |-> 1,
               env |-> [NoEnv EXCEPT
                          !.resp = [ok |-> TRUE, localId |-> "u2", email |-> Missing],
                          !.typed = "a@x.com", !.w1 = "ok"],
               calls |-> {"identity", "store_write"}, writes |-> 1,
               msg |-> SIGNUP_OK, raised |-> FALSE, out |-> <<>>]

\* A login that the provider and the store let through.
LoginOk(i) == Login(i) /\ last'.msg = LOGIN_OK

\* One UI instance with a running clock and working accounts; the user
\* logs in, chats and reads the history.
NextTime ==
    \/ Tick
    \/ LoginOk(1)
    \/ SendTimed(1)
    \/ LoadHistory(1)

SpecTime == InitSignedUp /\ [][NextTime]_vars

\* A send during which no store write fails.
SendStored(i) ==
    /\ Send(i)
    /\ last'.env.w1 # "fail" /\ last'.env.w2 # "fail"

\* Two UI instances with working accounts and a working store, callbacks
\* interleaved in any order.
NextMulti ==
    \/ \E i \in Instances : LoginOk(i)
    \/ \E i \in Instances : SendStored(i)
    \/ \E i \in Instances : LoadHistory(i)
    \/ \E i \in Instances : Logout(i)

SpecMulti == InitSignedUp /\ [][NextMulti]_vars

\* ====================================================================
\*                              Properties
\* ====================================================================
IsPrefix(s, t) == Len(s) <= Len(t) /\ SubSeq(t, 1, Len(s)) = s

LastItem(v) == v.items[Len(v.items)]

\* The step just taken was callback op of instance i.
Ran(op, i) == last'.op = op /\ last'.inst = i

\* C1: while session.logged_in is false, send and load_history call neither
\* the completion endpoint nor the document store (no read, no write, both
\* collections unchanged), and what they return carries the login-required
\* message.
C1_GatedNoExternalCalls ==
    [][\A i \in Instances :
        (~session[i].logged_in /\ (Ran("send", i) \/ Ran("load_history", i)))
        => /\ last'.calls = {}
           /\ last'.writes = 0
           /\ users' = users /\ chats' = chats
           /\ ~last'.raised
           /\ Ran("load_history", i) => last'.msg = HISTORY_GATE
           /\ Ran("send", i) =>
                /\ chat_history'[i].isList
                /\ chat_history'[i].items # <<>>
                /\ LastItem(chat_history'[i]) = GateEntry]_vars

C1_Witness ==
    /\ last.op = "load_history" /\ last.inst = 1
    /\ ~session[1].logged_in
    /\ last.msg = HISTORY_GATE
    /\ chat_history[1] = ListVal(<<GateEntry>>)

\* C2: whenever login returns its error outcome, the session it returns
\* equals, field by field, the session that was passed in.
C2_LoginErrorKeepsSession ==
    [][\A i \in Instances :
        (Ran("login", i) /\ last'.msg = LOGIN_ERR)
        => /\ session'[i].logged_in = session[i].logged_in
           /\ session'[i].uid = session[i].uid
           /\ session'[i].email = session[i].email]_vars

\* C3: after a login that returns the success outcome, logged_in is true,
\* uid is the localId and email is the email of the provider's response to
\* that call.
C3_LoginSuccessSession ==
    (last.op = "login" /\ last.msg = LOGIN_OK)
    => /\ last.env.resp.ok
       /\ session[last.inst].logged_in
       /\ session[last.inst].uid = last.env.resp.localId
       /\ session[last.inst].email = last.env.resp.email
       /\ session[last.inst].uid \in Uids
       /\ session[last.inst].email \in Emails

C3_Witness ==
    /\ last.op = "login" /\ last.msg = LOGIN_OK
    /\ last.env.resp.localId = "u2"
    /\ session[1] = [logged_in |-> TRUE, uid |-> "u2", email |-> "a@x.com"]

\* C4: logout of any reachable session gives the all-default logged-out
\* session, a second logout gives the same session again, and the state
\* after a logout step holds that session.
C4_LogoutResets ==
    /\ \A i \in Instances :
        /\ logout(session[i]).session = DefaultSession
        /\ logout(logout(session[i]).session).session = logout(session[i]).session
    /\ last.op = "logout" => session[last.inst] = DefaultSession

\* A logout that ran after a login had gone through.
C4_Witness ==
    /\ last.op = "logout" /\ last.inst = 1
    /\ session[1] = DefaultSession
    /\ \E u \in Uids : users[u].last_login # NoTime

\* C5: a send by a logged-in user for which the completion endpoint gives a
\* reply adds exactly one entry (message, reply) to the transcript and
\* appends exactly two records to that user's log, role=user with the
\* message and then role=bot with the reply.  Stated here for the sends in
\* which no store write fails and the session has a uid.
C5_SendAppendsTurn ==
    [][\A i \in Instances :
        (/\ Ran("send", i)
         /\ session[i].logged_in /\ session[i].uid \in Uids
         /\ last'.env.comp \in Replies
         /\ last'.env.w1 # "fail" /\ last'.env.w2 # "fail")
        => /\ ~last'.raised
           /\ chat_history'[i] =
                ListVal(Append(chat_history[i].items,
                               Entry(YouLabel(last'.env.typed), last'.env.comp)))
           /\ chats'[session[i].uid] =
                chats[session[i].uid] \o
                  << [role |-> "user", text |-> last'.env.typed, time |-> clock],
                     [role |-> "bot", text |-> last'.env.comp, time |-> clock] >>
           /\ \A u \in Uids \ {session[i].uid} : chats'[u] = chats[u]]_vars

\* C6: a send by a logged-in user for which the completion call fails adds
\* exactly one error entry to the transcript, makes no persistence call,
\* leaves the logs unchanged and leaves the session unchanged and logged in.
C6_CompletionFailure ==
    [][\A i \in Instances :
        (/\ Ran("send", i)
         /\ session[i].logged_in
         /\ last'.env.comp \in CompletionFailures)
        => /\ ~last'.raised
           /\ chat_history'[i] =
                ListVal(Append(chat_history[i].items,
                               Entry("System", ChatErrorText(last'.env.comp))))
           /\ last'.writes = 0
           /\ "store_write" \notin last'.calls
           /\ chats' = chats
           /\ session'[i] = session[i]
           /\ session'[i].logged_in]_vars

\* C7: no callback raises to the UI.
C7_NoCallbackRaises == ~last.raised

\* C8: every callback other than logout leaves the stored transcript as a
\* prefix of the new one, and a send while logged out appends exactly one
\* 'please login' entry to the transcript it was given.
C8_TranscriptAppendOnly ==
    [][\A i \in Instances :
        /\ last'.op # "logout" =>
              IsPrefix(chat_history[i].items, chat_history'[i].items)
        /\ (Ran("send", i) /\ ~session[i].logged_in) =>
              chat_history'[i].items = Append(chat_history[i].items, GateEntry)]_vars

\* C9: logged_in goes from false to true only in a login step and from
\* true to false only in a logout step; signup, send and load_history leave
\* the three session fields as they were, on every path.
C9_SessionFrame ==
    [][\A i \in Instances :
        /\ (~session[i].logged_in /\ session'[i].logged_in) => Ran("login", i)
        /\ (session[i].logged_in /\ ~session'[i].logged_in) => Ran("logout", i)
        /\ last'.op \in {"signup", "send", "load_history"} =>
              session'[i] = session[i]]_vars

\* The error path of send in a logged-in session: the callback raised and
\* the session is still the logged-in one.
C9_Witness ==
    /\ last.op = "send" /\ last.inst = 1 /\ last.raised
    /\ session[1].logged_in /\ session[1].uid \in Uids

\* The identity provider accepted the signup: a 2xx answer carrying the id.
Accepted(resp) == resp.ok /\ resp.localId \in Uids

\* C10 as claimed: when the provider accepts a signup, signup returns the
\* success string and the User record of the new uid holds the given email
\* and last_login = null; when it returns the error string no record was
\* created.
C10_SignupAsClaimed ==
    [][\A i \in Instances : Ran("signup", i) =>
        /\ Accepted(last'.env.resp) =>
              /\ last'.msg = SIGNUP_OK
              /\ users'[last'.env.resp.localId] =
                    [exists |-> TRUE, email |-> last'.env.typed,
                     last_login |-> NoTime]
        /\ last'.msg = SIGNUP_ERR => users' = users]_vars

\* C10 amended: when the provider accepts a signup and the write of the
\* User record succeeds, signup returns the success string, the record of
\* the new uid holds the given email and last_login = null and no other
\* record changes; in every other case signup returns the error string and
\* the users collection is unchanged.
C10_Signup ==
    [][\A i \in Instances : Ran("signup", i) =>
        IF Accepted(last'.env.resp) /\ last'.env.w1 = "ok"
        THEN /\ last'.msg = SIGNUP_OK
             /\ users'[last'.env.resp.localId] =
                   [exists |-> TRUE, email |-> last'.env.typed,
                    last_login |-> NoTime]
             /\ \A u \in Uids \ {last'.env.resp.localId} : users'[u] = users[u]
        ELSE /\ last'.msg = SIGNUP_ERR
             /\ users' = users]_vars

\* A successful signup of u1 while the record of u2, signed up and logged
\* into earlier, is in place.
C10_Witness ==
    /\ last.op = "signup" /\ last.msg = SIGNUP_OK
    /\ last.env.resp.localId = "u1"
    /\ users["u1"] = [exists |-> TRUE, email |-> "a@x.com", last_login |-> NoTime]
    /\ users["u2"].last_login # NoTime

\* The output of the last load_history is the history of a logged-in user.
Loaded(i) ==
    /\ last.op = "load_history" /\ last.inst = i
    /\ ~last.raised /\ last.msg = HISTORY_HEADER

\* C11: load_history of a logged-in session returns the user's persisted
\* messages, one line each, in non-decreasing time order; a second
\* load_history right after the first returns the same output; load_history
\* leaves the log, the session and the transcript unchanged.
C11_HistoryOrderedIdempotent ==
    [][\A i \in Instances : Ran("load_history", i) =>
        /\ chats' = chats /\ users' = users
        /\ session' = session
        /\ chat_history' = chat_history /\ chatbot' = chatbot
        /\ (~last'.raised /\ last'.msg = HISTORY_HEADER) =>
              /\ session[i].uid \in Uids =>
                    Len(last'.out) = Len(chats[session[i].uid])
              /\ \A k \in 1..(Len(last'.out) - 1) :
                    last'.out[k].time <= last'.out[k + 1].time
              /\ Loaded(i) =>
                    last'.out = last.out]_vars

\* A history whose lines lie in two different seconds.
C11_Witness ==
    /\ Loaded(1)
    /\ Len(last.out) = 2
    /\ last.out[1].time < last.out[2].time

\* C12 as claimed: every record of the user's log appears in the output of
\* load_history with its role and text and with a timestamp that is not
\* earlier than the clock reading at which the save was issued.  Stated
\* for the role=user records: their save is issued at the reading with
\* which the record is stamped.
C12_RoundTripAsClaimed ==
    \A i \in Instances :
        (Loaded(i) /\ session[i].uid \in Uids) =>
            \A k \in {n \in DOMAIN chats[session[i].uid] :
                         chats[session[i].uid][n].role = "user"} :
                \E j \in DOMAIN last.out :
                    /\ last.out[j].role = chats[session[i].uid][k].role
                    /\ last.out[j].text = chats[session[i].uid][k].text
                    /\ last.out[j].time * TicksPerSecond >=
                          chats[session[i].uid][k].time

\* The records that a step appended to the log of uid u.
Added(u) == SubSeq(chats'[u], Len(chats[u]) + 1, Len(chats'[u]))

\* C12 amended: save_message stamps the record with a time not earlier
\* than the reading at which it was issued, and load_history shows every
\* record of the user's log with its role and text and with its time cut
\* to whole seconds, which is not earlier than the second of the issue.
C12_RoundTrip ==
    [][\A i \in Instances :
        /\ Ran("send", i) =>
              \A u \in Uids :
                  /\ IsPrefix(chats[u], chats'[u])
                  /\ \A k \in DOMAIN Added(u) :
                        /\ Added(u)[k].time >= clock
                        /\ Added(u)[k].role \in {"user", "bot"}
                        /\ Added(u)[k].role = "user" =>
                              Added(u)[k].text = last'.env.typed
                        /\ Added(u)[k].role = "bot" =>
                              Added(u)[k].text = last'.env.comp
        /\ (Ran("load_history", i) /\ ~last'.raised
               /\ last'.msg = HISTORY_HEADER /\ session[i].uid \in Uids) =>
              \A k \in DOMAIN chats[session[i].uid] :
                  \E j \in DOMAIN last'.out :
                      LET rec == chats[session[i].uid][k]
                      IN  /\ last'.out[j].role = rec.role
                          /\ last'.out[j].text = rec.text
                          /\ last'.out[j].time = rec.time \div TicksPerSecond
                          /\ last'.out[j].time >= 0]_vars

\* A history with a record that was stamped inside a second.
C12_Witness ==
    /\ Loaded(1) /\ session[1].uid = "u1"
    /\ \E k \in DOMAIN chats["u1"] :
          /\ chats["u1"][k].time % TicksPerSecond # 0
          /\ chats["u1"][k].role = "user"
          /\ \E j \in DOMAIN last.out :
                /\ last.out[j].role = "user"
                /\ last.out[j].text = chats["u1"][k].text
                /\ last.out[j].time = chats["u1"][k].time \div TicksPerSecond

\* C13: a callback of one UI instance leaves the session, the transcript
\* and the display of every other instance unchanged, and a send from a
\* session with uid u appends only to the log of u.
C13_InstancesIndependent ==
    [][\A i \in Instances : last'.inst = i =>
        /\ \A j \in Instances \ {i} :
              /\ session'[j] = session[j]
              /\ chat_history'[j] = chat_history[j]
              /\ chatbot'[j] = chatbot[j]
        /\ last'.op = "send" =>
              /\ \A u \in Uids \ {session[i].uid} : chats'[u] = chats[u]
              /\ \A u \in Uids : IsPrefix(chats[u], chats'[u])
        /\ last'.op # "send" => chats' = chats]_vars

\* Two instances logged in as different users, each with a persisted turn
\* and its own transcript.
C13_Witness ==
    /\ session[1].logged_in /\ session[1].uid = "u2"
    /\ session[2].logged_in /\ session[2].uid = "u1"
    /\ Len(chats["u1"]) = 2 /\ Len(chats["u2"]) = 2
    /\ chat_history[1].items # <<>> /\ chat_history[2].items # <<>>
    /\ last.op = "send"

\* C14: in every reachable state the stored transcript is a sequence of
\* entries.
C14_TranscriptIsList ==
    \A i \in Instances : chat_history[i].isList

\* C15: logged_in = true implies uid and email are both set, and
\* logged_in = false implies both are null.
C15_SessionWellFormed ==
    \A i \in Instances :
        IF session[i].logged_in
        THEN session[i].uid # None /\ session[i].email # None
        ELSE session[i].uid = None /\ session[i].email = None

CountRole(log, role) == Cardinality({k \in DOMAIN log : log[k].role = role})

\* C16: every user's log holds as many role=bot records as role=user
\* records.
C16_TurnAllOrNothing ==
    \A u \in Uids : CountRole(chats[u], "bot") = CountRole(chats[u], "user")

\* C17: after a send or a logout that returned, the chatbot shows the
\* entries of the stored transcript.
C17_DisplayIsTranscript ==
    (last.op \in {"send", "logout"} /\ ~last.raised) =>
        chatbot[last.inst].items = chat_history[last.inst].items

====
